---- MODULE Spec2Model ----
(***************************************************************************)
(* Model of the DXF browser data layer, src/src/ezdxf/addons/browser/      *)
(* data.py: DXFDocument, HandleIndex, LineIndex.                           *)
(*                                                                         *)
(* Python values are modelled as follows.                                  *)
(*   - a str is a sequence of one-character strings;                       *)
(*   - a Tags object (a record) is [id, tags]: `id` is the object's        *)
(*     identity (what `is` and id() compare), `tags` the list of DXF tags; *)
(*   - a DXF tag is [tid, code, value], `tid` being the tag's identity;    *)
(*   - a dict is a sequence of [key, val] pairs in insertion order;        *)
(*   - None, an int result and a raised exception are wrapped in records   *)
(*     so that every result of a call can be compared with every other.    *)
(***************************************************************************)
EXTENDS Integers, Sequences, FiniteSets, TLC

\* ------------------------------------------------------------------ bounds

\* Records per generated DXF file.
MaxRecords == 2
\* Sections per generated DXF file.
MaxSections == 2
\* Times a document is (re)loaded.
MaxLoads == 2
\* Records of the one long file, which makes multi-digit dummy handles happen.
MaxLong == 16
\* Largest tag offset passed to get_line_number().
MaxOffset == 1

\* --------------------------------------------------------- python values

None == [none |-> TRUE]
IntVal(n) == [int |-> n]
StrVal(s) == [str |-> s]
AttributeError == [exc |-> "AttributeError"]
IsRaised(v) == "exc" \in DOMAIN v

\* The result of a handle lookup that found no handle (None, or ValueError
\* raised by Tags.get_handle()); no str equals it.
NoHandle == <<"<none>">>

Range(s) == {s[i] : i \in DOMAIN s}

RECURSIVE SeqsUpTo(_, _)
SeqsUpTo(S, n) ==
    IF n = 0 THEN {<<>>}
    ELSE LET shorter == SeqsUpTo(S, n - 1)
         IN  shorter \cup {Append(s, x) : s \in {t \in shorter : Len(t) = n - 1}, x \in S}

\* str.upper() on one character; only hex letters occur in handles.
UpperChar(c) ==
    CASE c = "a" -> "A" [] c = "b" -> "B" [] c = "c" -> "C"
      [] c = "d" -> "D" [] c = "e" -> "E" [] c = "f" -> "F"
      [] OTHER -> c

\* str.upper()
StrUpper(s) == [i \in DOMAIN s |-> UpperChar(s[i])]

HexDigits == <<"0", "1", "2", "3", "4", "5", "6", "7", "8", "9", "A", "B", "C", "D", "E", "F">>

\* f"{n:X}": n in upper-case hexadecimal, no leading zeros.
RECURSIVE FormatHexUpper(_)
FormatHexUpper(n) ==
    IF n < 16 THEN <<HexDigits[n + 1]>>
    ELSE FormatHexUpper(n \div 16) \o <<HexDigits[(n % 16) + 1]>>

\* str.lower() on one character; only the letters A to F occur.
LowerChar(c) ==
    CASE c = "A" -> "a" [] c = "B" -> "b" [] c = "C" -> "c"
      [] c = "D" -> "d" [] c = "E" -> "e" [] c = "F" -> "f"
      [] OTHER -> c

\* str.lower()
StrLower(s) == [i \in DOMAIN s |-> LowerChar(s[i])]

\* `term in value` on two str: term is a substring of value.
StrContains(term, value) ==
    \E i \in 0..(Len(value) - Len(term)) : SubSeq(value, i + 1, i + Len(term)) = term

\* value.split(): the maximal runs of characters other than the blank.
StrSplit(value) ==
    {SubSeq(value, p[1], p[2]) : p \in
        {q \in (1..Len(value)) \X (1..Len(value)) :
            /\ q[1] <= q[2]
            /\ \A k \in q[1]..q[2] : value[k] # " "
            /\ (q[1] = 1 \/ value[q[1] - 1] = " ")
            /\ (q[2] = Len(value) \/ value[q[2] + 1] = " ")}}

\* str(n) of an int n >= 0: n in decimal.
RECURSIVE FormatDecimal(_)
FormatDecimal(n) ==
    IF n < 10 THEN <<HexDigits[n + 1]>>
    ELSE FormatDecimal(n \div 10) \o <<HexDigits[(n % 10) + 1]>>

\* IndexError raised by a subscript out of range.
IndexError == [exc |-> "IndexError"]

\* dict.get(key): the value stored under key, or None.
DictGet(d, key) ==
    IF \E i \in DOMAIN d : d[i].key = key
    THEN d[CHOOSE i \in DOMAIN d : d[i].key = key].val
    ELSE None

DictHas(d, key) == \E i \in DOMAIN d : d[i].key = key

\* d[key] = val: a new key is appended, an existing key keeps its position
\* in the iteration order and gets the new value.
DictSet(d, key, val) ==
    IF DictHas(d, key)
    THEN [i \in DOMAIN d |-> IF d[i].key = key THEN [key |-> key, val |-> val] ELSE d[i]]
    ELSE Append(d, [key |-> key, val |-> val])

\* ------------------------------------------------------------- DXF files

\* A file is a sequence of sections, a section a sequence of record shapes
\* [handle, ntags]: the record's handle (NoHandle if it has no handle tag)
\* and its number of tags.
KindEmpty == [handle |-> NoHandle, ntags |-> 0]
KindNoHandle == [handle |-> NoHandle, ntags |-> 1]
KindUpper == [handle |-> <<"1", "A">>, ntags |-> 2]
KindLower == [handle |-> <<"1", "a">>, ntags |-> 2]
Kinds == {KindEmpty, KindNoHandle, KindUpper, KindLower}

\* The flat record sequence `flat` cut into n sections at the positions cuts.
SplitAt(flat, cuts, n) ==
    [s \in 1..n |->
        SubSeq(flat,
               (IF s = 1 THEN 0 ELSE cuts[s - 1]) + 1,
               IF s = n THEN Len(flat) ELSE cuts[s])]

FilesOf(flat) ==
    {<<>>} \cup
    UNION {{SplitAt(flat, cuts, n) :
                cuts \in {c \in [1..(n - 1) -> 0..Len(flat)] :
                             \A i \in 1..(n - 2) : c[i] <= c[i + 1]}} :
           n \in 1..MaxSections}

\* Every file of at most MaxSections sections and MaxRecords records; a file
\* without a section holds no record.
SmallFiles ==
    UNION {IF Len(flat) = 0 THEN FilesOf(flat) ELSE FilesOf(flat) \ {<<>>} :
           flat \in SeqsUpTo(Kinds, MaxRecords)}

\* HEADER = [rec1 (3 tags)], ENTITIES = [rec2 (2 tags), rec3 (4 tags)]
ExampleFile ==
    << <<[handle |-> NoHandle, ntags |-> 3]>>,
       <<[handle |-> <<"2", "B">>, ntags |-> 2], [handle |-> NoHandle, ntags |-> 4]>> >>

\* One section of MaxLong records without handle and, as its second record,
\* one record with a lower-case handle.
LongFile == << [i \in 1..(MaxLong + 1) |-> IF i = 2 THEN KindLower ELSE KindNoHandle] >>

Files == SmallFiles \cup {ExampleFile, LongFile}

\* The tags of a record of shape kind, created as the object id: the entity
\* type tag, the handle tag (group code 5) if the record has a handle, and
\* layer tags (group code 8).
MakeTags(kind, id) ==
    [j \in 1..kind.ntags |->
        IF j = 1 THEN [tid |-> <<id, j>>, code |-> 0, value |-> <<"L", "I", "N", "E">>]
        ELSE IF j = 2 /\ kind.handle # NoHandle
             THEN [tid |-> <<id, j>>, code |-> 5, value |-> kind.handle]
             ELSE [tid |-> <<id, j>>, code |-> 8, value |-> <<"0">>]]

MakeRecord(kind, id) == [id |-> id, tags |-> MakeTags(kind, id)]

RECURSIVE SumLen(_)
SumLen(ss) == IF ss = <<>> THEN 0 ELSE Len(Head(ss)) + SumLen(Tail(ss))

\* load_section_dict(filename): the sections of the file, every record a new
\* object; gen numbers the call, so no two calls share an object.
load_section_dict(f, gen) ==
    [s \in DOMAIN f |->
        [i \in DOMAIN f[s] |->
            MakeRecord(f[s][i], <<gen, SumLen(SubSeq(f, 1, s - 1)) + i>>)]]

\* Tags.get_handle(): the value of the first tag with group code 5 or 105;
\* NoHandle stands for the ValueError it raises when there is none.
Tags_get_handle(entity) ==
    LET hs == {j \in DOMAIN entity.tags : entity.tags[j].code \in {5, 105}}
    IN  IF hs = {} THEN NoHandle
        ELSE entity.tags[CHOOSE j \in hs : \A k \in hs : j <= k].value

\* The records of a section mapping in file order.
RECURSIVE Flatten(_)
Flatten(ss) == IF ss = <<>> THEN <<>> ELSE Head(ss) \o Flatten(Tail(ss))

\* ------------------------------------------------------------ HandleIndex

\* IndexEntry.__init__: prev and next are references to entries of the
\* build (positions in `entries`), 0 standing for None.
IndexEntry(tags, handle, line) ==
    [tags |-> tags, handle |-> handle, start_line_number |-> line, prev |-> 0, next |-> 0]

\* Mutant of DummyHandle: the counter starts at 0.
DummyHandle_from_zero(n) == <<"*">> \o FormatHexUpper(n - 1)

\* The dummy handle of the n-th record without handle: f"*{dummy_handle:X}".
DummyHandle(n) == <<"*">> \o FormatHexUpper(n)

\* One pass of the inner loop of HandleIndex._build over the record `tags`.
\* st is the loop state: start_line_number, dummy_handle, entity_index,
\* prev_entity, and `entries`, every IndexEntry created so far.
HandleIndex_build_step(st, tags) ==
    LET found == Tags_get_handle(tags)
        raised == found = NoHandle
        handle == StrUpper(IF raised THEN DummyHandle(st.dummy_handle) ELSE found)
        ref == Len(st.entries) + 1
        new_entity == [IndexEntry(tags, handle, st.start_line_number)
                          EXCEPT !.prev = st.prev_entity]
        linked == IF st.prev_entity # 0
                  THEN [st.entries EXCEPT ![st.prev_entity].next = ref]
                  ELSE st.entries
    IN  [start_line_number |-> st.start_line_number + Len(tags.tags) * 2,
         dummy_handle |-> IF raised THEN st.dummy_handle + 1 ELSE st.dummy_handle,
         entity_index |-> DictSet(st.entity_index, handle, ref),
         prev_entity |-> ref,
         entries |-> Append(linked, new_entity)]

RECURSIVE HandleIndex_build_section(_, _)
HandleIndex_build_section(st, section) ==
    IF section = <<>> THEN st
    ELSE HandleIndex_build_section(HandleIndex_build_step(st, Head(section)), Tail(section))

\* The lines added after each section, for its missing ENDSEC tag.
EndSecLines == 2

\* The outer loop of HandleIndex._build.
RECURSIVE HandleIndex_build_sections(_, _)
HandleIndex_build_sections(st, sections) ==
    IF sections = <<>> THEN st
    ELSE LET done == HandleIndex_build_section(st, Head(sections))
         IN  HandleIndex_build_sections(
                 [done EXCEPT !.start_line_number = @ + EndSecLines], Tail(sections))

\* HandleIndex._max_line_number after _build, from the final start_line_number.
HandleIndex_max_after(start_line_number) == start_line_number - 3

\* HandleIndex.__init__ and _build: the index object.
HandleIndex_build(sections) ==
    LET st == HandleIndex_build_sections(
                  [start_line_number |-> 1, dummy_handle |-> 1, entity_index |-> <<>>,
                   prev_entity |-> 0, entries |-> <<>>],
                  sections)
    IN  [index |-> st.entity_index,
         entries |-> st.entries,
         max_line_number |-> HandleIndex_max_after(st.start_line_number)]

\* HandleIndex.__contains__
HandleIndex_contains(hi, handle) == DictHas(hi.index, StrUpper(handle))

\* HandleIndex.get
HandleIndex_get(hi, handle) ==
    IF DictHas(hi.index, StrUpper(handle))
    THEN hi.entries[DictGet(hi.index, StrUpper(handle))].tags
    ELSE None

\* HandleIndex.get_handle: the record's own handle as written, else the key
\* of the first entry whose first tag is the record's first tag, else
\* NoHandle (None).
HandleIndex_get_handle(hi, entity) ==
    IF Len(entity.tags) = 0 THEN NoHandle
    ELSE IF Tags_get_handle(entity) # NoHandle THEN Tags_get_handle(entity)
    ELSE LET first_tag == entity.tags[1]
             hits == {i \in DOMAIN hi.index :
                         LET tags == hi.entries[hi.index[i].val].tags
                         IN  Len(tags.tags) # 0 /\ tags.tags[1].tid = first_tag.tid}
         IN  IF hits = {} THEN NoHandle
             ELSE hi.index[CHOOSE i \in hits : \A k \in hits : i <= k].key

\* self._index.get(handle), as next_entity and previous_entity call it:
\* the reference of the entry stored under handle, 0 standing for None.
NavLookup(hi, handle) == IF DictHas(hi.index, handle) THEN DictGet(hi.index, handle) ELSE 0

\* HandleIndex.next_entity; AttributeError when the handle is not a key of
\* the index (dxf_entity is None).
HandleIndex_next_entity(hi, entity) ==
    LET handle == HandleIndex_get_handle(hi, entity)
    IN  IF handle # NoHandle
        THEN LET dxf_entity == NavLookup(hi, handle)
             IN  IF dxf_entity = 0 THEN AttributeError
                 ELSE IF hi.entries[dxf_entity].next # 0
                      THEN hi.entries[hi.entries[dxf_entity].next].tags
                      ELSE entity
        ELSE entity

\* HandleIndex.previous_entity
HandleIndex_previous_entity(hi, entity) ==
    LET handle == HandleIndex_get_handle(hi, entity)
    IN  IF handle # NoHandle
        THEN LET dxf_entity == NavLookup(hi, handle)
             IN  IF dxf_entity = 0 THEN AttributeError
                 ELSE IF hi.entries[dxf_entity].prev # 0
                      THEN hi.entries[hi.entries[dxf_entity].prev].tags
                      ELSE entity
        ELSE entity

\* The loop of HandleIndex.get_entity_at_line from position i of
\* _index.values() on, `tags` being the record of the previous entry.
RECURSIVE HandleScan(_, _, _, _)
HandleScan(hi, i, tags, number) ==
    IF i > Len(hi.index) THEN tags
    ELSE LET entry == hi.entries[hi.index[i].val]
         IN  IF entry.start_line_number > number THEN tags
             ELSE HandleScan(hi, i + 1, entry.tags, number)

\* HandleIndex.get_entity_at_line
HandleIndex_get_entity_at_line(hi, number) == HandleScan(hi, 1, None, number)

\* The records HandleIndex._index.values() iterates, in iteration order.
HandleIndex_values(hi) == [i \in DOMAIN hi.index |-> hi.entries[hi.index[i].val].tags]

\* -------------------------------------------------------------- LineIndex

\* Mutant of RecordLines: two more lines after every record.
RecordLines_with_gap(entity) == Len(entity.tags) * 2 + 2

\* The lines a record takes: group code and value for each tag.
RecordLines(entity) == Len(entity.tags) * 2

\* LineIndex.build_entity_index: id(entity) -> (line_number, entity).
\* acc is the loop state [index, line_number].
RECURSIVE build_entity_index_section(_, _)
build_entity_index_section(acc, section) ==
    IF section = <<>> THEN acc
    ELSE LET entity == Head(section)
         IN  build_entity_index_section(
                 [index |-> DictSet(acc.index, entity.id,
                                    [start |-> acc.line_number, entity |-> entity]),
                  line_number |-> acc.line_number + RecordLines(entity)],
                 Tail(section))

RECURSIVE build_entity_index_sections(_, _)
build_entity_index_sections(acc, sections) ==
    IF sections = <<>> THEN acc
    ELSE LET done == build_entity_index_section(acc, Head(sections))
         IN  build_entity_index_sections(
                 [done EXCEPT !.line_number = @ + EndSecLines], Tail(sections))

\* Mutant of build_entity_index: line numbers counted from 0.
build_entity_index_from_zero(sections) ==
    build_entity_index_sections([index |-> <<>>, line_number |-> 0], sections).index

build_entity_index(sections) ==
    build_entity_index_sections([index |-> <<>>, line_number |-> 1], sections).index

\* (start, entity) < (start, entity) on tuples: the start lines decide;
\* on a tie the Tags lists are compared, and an empty list is less than a
\* non-empty one. (Two non-empty records never tie: each takes lines.)
LineEntryLess(a, b) ==
    \/ a.start < b.start
    \/ a.start = b.start /\ Len(a.entity.tags) = 0 /\ Len(b.entity.tags) # 0

\* list.sort(): a stable sort, here by insertion.
RECURSIVE InsertSorted(_, _)
InsertSorted(sorted, x) ==
    IF sorted = <<>> THEN <<x>>
    ELSE LET last == sorted[Len(sorted)]
         IN  IF LineEntryLess(x, last)
             THEN Append(InsertSorted(SubSeq(sorted, 1, Len(sorted) - 1), x), last)
             ELSE Append(sorted, x)

RECURSIVE SortLines(_)
SortLines(index) ==
    IF index = <<>> THEN <<>>
    ELSE InsertSorted(SortLines(SubSeq(index, 1, Len(index) - 1)), index[Len(index)])

\* LineIndex.build_line_index: the sorted list of (start_line_number, entity).
RECURSIVE build_line_index_section(_, _)
build_line_index_section(acc, section) ==
    IF section = <<>> THEN acc
    ELSE LET entity == Head(section)
         IN  build_line_index_section(
                 [index |-> Append(acc.index,
                                   [start |-> acc.start_line_number, entity |-> entity]),
                  start_line_number |-> acc.start_line_number + RecordLines(entity)],
                 Tail(section))

RECURSIVE build_line_index_sections(_, _)
build_line_index_sections(acc, sections) ==
    IF sections = <<>> THEN acc
    ELSE LET done == build_line_index_section(acc, Head(sections))
         IN  build_line_index_sections(
                 [done EXCEPT !.start_line_number = @ + EndSecLines], Tail(sections))

build_line_index(sections) ==
    SortLines(build_line_index_sections([index |-> <<>>, start_line_number |-> 1],
                                        sections).index)

\* LineIndex.__init__
LineIndex_build(sections) ==
    LET index == build_line_index(sections)
    IN  [entity_index |-> build_entity_index(sections),
         line_index |-> index,
         max_line_number |->
             IF index # <<>>
             THEN index[Len(index)].start + Len(index[Len(index)].entity.tags) * 2 - 1
             ELSE 1]

\* LineIndex.get_start_line_for_entity
LineIndex_get_start_line_for_entity(li, entity) ==
    IF DictHas(li.entity_index, entity.id)
    THEN DictGet(li.entity_index, entity.id).start
    ELSE 0

\* The loop of LineIndex.get_entity_at_line from position i on, `entity`
\* being the record of the previous position.
RECURSIVE LineScan(_, _, _, _)
LineScan(index, i, entity, number) ==
    IF i > Len(index) THEN entity
    ELSE IF index[i].start > number THEN entity
    ELSE LineScan(index, i + 1, index[i].entity, number)

\* Mutant of LineIndex_get_entity_at_line: the scan stops at start >= number.
LineIndex_get_entity_at_line_early(li, number) ==
    IF Len(li.line_index) = 0 THEN None
    ELSE LineScan(li.line_index, 1, li.line_index[1].entity, number - 1)

\* Mutant of LineIndex_get_entity_at_line: None for a line before the first
\* start line, as HandleIndex.get_entity_at_line answers.
LineIndex_get_entity_at_line_none_below(li, number) ==
    IF Len(li.line_index) = 0 THEN None
    ELSE IF li.line_index[1].start > number THEN None
    ELSE LineScan(li.line_index, 1, li.line_index[1].entity, number)

\* LineIndex.get_entity_at_line
LineIndex_get_entity_at_line(li, number) ==
    IF Len(li.line_index) = 0 THEN None
    ELSE LineScan(li.line_index, 1, li.line_index[1].entity, number)

\* ---------------------------------------------------------- EntityHistory

MaxHistory == 6

\* EntityHistory.__init__: _history, _index, _time_travel
EntityHistory_init == [history |-> <<>>, index |-> 0, time_travel |-> <<>>]

\* Mutant of EntityHistory_clear: the cursor is not reset.
EntityHistory_clear_keeps_cursor(h) ==
    [history |-> <<>>, index |-> h.index, time_travel |-> <<>>]

\* EntityHistory.clear
EntityHistory_clear(h) == [history |-> <<>>, index |-> 0, time_travel |-> <<>>]

\* Mutant of EntityHistory_append: the redo buffer is dropped, not flushed.
EntityHistory_append_drops_redo(h, entity) ==
    LET count == Len(h.history)
    IN  IF count > 0 /\ h.history[count] = entity
        THEN [history |-> h.history, index |-> h.index, time_travel |-> <<>>]
        ELSE [history |-> Append(h.history, entity), index |-> count, time_travel |-> <<>>]

\* Mutant of EntityHistory_append: no comparison with the last entry.
EntityHistory_append_always(h, entity) ==
    LET flushed == h.history \o h.time_travel
    IN  [history |-> Append(flushed, entity), index |-> Len(flushed), time_travel |-> <<>>]

\* Mutant of EntityHistory_append: a skipped append rewinds the cursor.
EntityHistory_append_rewinds(h, entity) ==
    LET flushed == h.history \o h.time_travel
        count == Len(flushed)
    IN  IF count > 0 /\ flushed[count] = entity
        THEN [history |-> flushed, index |-> 0, time_travel |-> <<>>]
        ELSE [history |-> Append(flushed, entity), index |-> count, time_travel |-> <<>>]

\* Mutant of EntityHistory_append: the entity is compared with the last
\* history entry before the flush.
EntityHistory_append_compares_first(h, entity) ==
    LET flushed == h.history \o h.time_travel
    IN  IF h.history # <<>> /\ h.history[Len(h.history)] = entity
        THEN [history |-> flushed, index |-> h.index, time_travel |-> <<>>]
        ELSE [history |-> Append(flushed, entity), index |-> Len(flushed),
              time_travel |-> <<>>]

\* EntityHistory.append; records are equal only if they are the same object.
EntityHistory_append(h, entity) ==
    LET flushed == IF h.time_travel # <<>> THEN h.history \o h.time_travel ELSE h.history
        count == Len(flushed)
    IN  IF count > 0 /\ flushed[count] = entity
        THEN [history |-> flushed, index |-> h.index, time_travel |-> <<>>]
        ELSE [history |-> Append(flushed, entity), index |-> count, time_travel |-> <<>>]

\* Mutant of EntityHistory_time_wrap: the record is not pushed.
EntityHistory_time_wrap_no_push(h, index) ==
    [h |-> [h EXCEPT !.index = index], ret |-> h.history[index + 1]]

\* Mutant of EntityHistory_time_wrap: the first record is pushed.
EntityHistory_time_wrap_pushes_first(h, index) ==
    [h |-> [h EXCEPT !.index = index, !.time_travel = Append(@, h.history[1])],
     ret |-> h.history[index + 1]]

\* EntityHistory._time_wrap: the object after the call and the return value;
\* _history[index] of the source is history[index + 1] here.
EntityHistory_time_wrap(h, index) ==
    LET entity == h.history[index + 1]
    IN  [h |-> [h EXCEPT !.index = index, !.time_travel = Append(@, entity)],
         ret |-> entity]

\* EntityHistory.back
EntityHistory_back(h) ==
    IF h.history # <<>>
    THEN IF h.index - 1 >= 0
         THEN EntityHistory_time_wrap(h, h.index - 1)
         ELSE [h |-> h, ret |-> h.history[1]]
    ELSE [h |-> h, ret |-> None]

\* EntityHistory.forward
EntityHistory_forward(h) ==
    IF h.history # <<>>
    THEN IF h.index + 1 < Len(h.history)
         THEN EntityHistory_time_wrap(h, h.index + 1)
         ELSE [h |-> h, ret |-> h.history[Len(h.history)]]
    ELSE [h |-> h, ret |-> None]

\* EntityHistory.content
EntityHistory_content(h) == h.history

\* ------------------------------------------------------------ SearchIndex

\* tag_type(code) of ezdxf.lldxf.types for the group codes of the model:
\* str for 0-9, 100-105 and 300-369, float for 10-59, int otherwise.
tag_type(code) ==
    IF code \in (0..9) \cup (100..105) \cup (300..369) THEN "str"
    ELSE IF code \in 10..59 THEN "float"
    ELSE "int"

\* SearchIndex.NOT_FOUND
NOT_FOUND == [entity |-> None, tag_index |-> -1]

\* SearchIndex.__init__
SearchIndex_init(entities) ==
    [entities |-> entities,
     current_entity_index |-> 0,
     current_tag_index |-> 0,
     search_term |-> None,
     search_term_lower |-> None,
     backward |-> FALSE,
     end_of_index |-> entities = <<>>,
     case_insensitive |-> TRUE,
     whole_words |-> FALSE,
     numbers |-> FALSE,
     regex |-> FALSE]

\* SearchIndex.current_entity; entities[i] of the source is entities[i + 1].
\* self.entities[self._current_entity_index] raises IndexError.
CursorOutOfList(s) == s.current_entity_index >= Len(s.entities)

\* SearchIndex.current_entity: what it returns, IndexError when reading the
\* record raises it.
SearchIndex_current_entity(s) ==
    IF s.entities # <<>> /\ ~s.end_of_index
    THEN IF CursorOutOfList(s) THEN IndexError
         ELSE [entity |-> s.entities[s.current_entity_index + 1],
               tag_index |-> s.current_tag_index]
    ELSE NOT_FOUND

\* SearchIndex.reset_cursor
SearchIndex_reset_cursor(s, backward) ==
    LET count == Len(s.entities)
    IN  IF count > 0
        THEN IF backward
             THEN [s EXCEPT !.end_of_index = FALSE,
                            !.current_entity_index = count - 1,
                            !.current_tag_index = Len(s.entities[count].tags) - 1]
             ELSE [s EXCEPT !.end_of_index = FALSE,
                            !.current_entity_index = 0,
                            !.current_tag_index = 0]
        ELSE [s EXCEPT !.end_of_index = TRUE,
                       !.current_entity_index = 0,
                       !.current_tag_index = 0]

\* Mutant of SearchIndex_move_cursor_forward: after the last tag of the last
\* record the cursor goes to the first tag of the first record.
SearchIndex_move_cursor_forward_wraps(s) ==
    IF s.entities # <<>> /\ s.current_entity_index < Len(s.entities)
    THEN LET entity == s.entities[s.current_entity_index + 1]
             tag_index == s.current_tag_index + 1
             entity_index == s.current_entity_index + 1
         IN  IF tag_index >= Len(entity.tags)
             THEN IF entity_index < Len(s.entities)
                  THEN [s EXCEPT !.current_entity_index = entity_index,
                                 !.current_tag_index = 0]
                  ELSE [s EXCEPT !.current_entity_index = 0,
                                 !.current_tag_index = 0]
             ELSE [s EXCEPT !.current_tag_index = tag_index]
    ELSE s

\* move_cursor_forward raises IndexError when it reads the current record.
SearchIndex_move_cursor_forward_raises(s) ==
    s.entities # <<>> /\ CursorOutOfList(s)

\* SearchIndex.move_cursor_forward: the object after the call, unchanged when
\* the call raises.
SearchIndex_move_cursor_forward(s) ==
    IF s.entities # <<>> /\ ~CursorOutOfList(s)
    THEN LET entity == s.entities[s.current_entity_index + 1]
             tag_index == s.current_tag_index + 1
             entity_index == s.current_entity_index + 1
         IN  IF tag_index >= Len(entity.tags)
             THEN IF entity_index < Len(s.entities)
                  THEN [s EXCEPT !.current_entity_index = entity_index,
                                 !.current_tag_index = 0]
                  ELSE [s EXCEPT !.end_of_index = TRUE]
             ELSE [s EXCEPT !.current_tag_index = tag_index]
    ELSE s

\* move_cursor_backward raises IndexError when it reads the previous record.
SearchIndex_move_cursor_backward_raises(s) ==
    /\ s.entities # <<>>
    /\ s.current_tag_index - 1 < 0
    /\ s.current_entity_index - 1 >= Len(s.entities)

\* SearchIndex.move_cursor_backward: the object after the call, unchanged
\* when the call raises.
SearchIndex_move_cursor_backward(s) ==
    IF s.entities # <<>> /\ ~SearchIndex_move_cursor_backward_raises(s)
    THEN LET tag_index == s.current_tag_index - 1
             entity_index == s.current_entity_index - 1
         IN  IF tag_index < 0
             THEN IF entity_index >= 0
                  THEN [s EXCEPT !.current_entity_index = entity_index,
                                 !.current_tag_index =
                                     Len(s.entities[entity_index + 1].tags) - 1]
                  ELSE [s EXCEPT !.end_of_index = TRUE]
             ELSE [s EXCEPT !.current_tag_index = tag_index]
    ELSE s

\* Tags.__eq__, the equality of lists: the same codes and values in the same
\* order, whichever objects the two records are.
TagsEqual(a, b) ==
    [j \in DOMAIN a.tags |-> <<a.tags[j].code, a.tags[j].value>>]
        = [j \in DOMAIN b.tags |-> <<b.tags[j].code, b.tags[j].value>>]

\* list.index(entity): the index of the first item equal to entity, -1 for
\* ValueError.
ListIndex(entities, entity) ==
    IF \E i \in DOMAIN entities : TagsEqual(entities[i], entity)
    THEN (CHOOSE i \in DOMAIN entities :
              /\ TagsEqual(entities[i], entity)
              /\ \A k \in 1..(i - 1) : ~TagsEqual(entities[k], entity)) - 1
    ELSE -1

\* SearchIndex.set_current_entity
SearchIndex_set_current_entity(s, entity, tag_index) ==
    LET at == [s EXCEPT !.current_tag_index = tag_index]
        found == ListIndex(s.entities, entity)
    IN  IF found >= 0 THEN [at EXCEPT !.current_entity_index = found]
        ELSE SearchIndex_reset_cursor(at, FALSE)

\* Mutant of SearchIndex_update_entities: without a current record the
\* cursor is reset.
SearchIndex_update_entities_resets(s, entities) ==
    LET current == SearchIndex_current_entity(s)
        replaced == [s EXCEPT !.entities = entities]
    IN  IF current.entity # None /\ current.entity.tags # <<>>
        THEN SearchIndex_set_current_entity(replaced, current.entity, current.tag_index)
        ELSE SearchIndex_reset_cursor(replaced, FALSE)

\* SearchIndex.update_entities, when current_entity() returns; a record
\* without tags is false, as None is.
SearchIndex_update_entities(s, entities) ==
    LET current == SearchIndex_current_entity(s)
        replaced == [s EXCEPT !.entities = entities]
    IN  IF current.entity # None /\ current.entity.tags # <<>>
        THEN SearchIndex_set_current_entity(replaced, current.entity, current.tag_index)
        ELSE replaced

\* SearchIndex.reset_search_term
SearchIndex_reset_search_term(s, term) ==
    [s EXCEPT !.search_term = StrVal(term), !.search_term_lower = StrVal(StrLower(term))]

\* str(value) of a tag value, which is a str or an int.
Str(value) == IF "int" \in DOMAIN value THEN FormatDecimal(value.int) ELSE value.str

\* Mutant of SearchIndex_match: whole_words is not looked at.
SearchIndex_match_substring(s, code, value) ==
    IF tag_type(code) # "str" /\ ~s.numbers THEN FALSE
    ELSE LET text == IF tag_type(code) # "str" THEN Str(value) ELSE value.str
             search_term == IF s.case_insensitive THEN s.search_term_lower.str
                            ELSE s.search_term.str
             folded == IF s.case_insensitive THEN StrLower(text) ELSE text
         IN  StrContains(search_term, folded)

\* SearchIndex._match; the value of a tag of type str is a str.
SearchIndex_match(s, code, value) ==
    IF tag_type(code) # "str" /\ ~s.numbers THEN FALSE
    ELSE LET text == IF tag_type(code) # "str" THEN Str(value) ELSE value.str
             search_term == IF s.case_insensitive THEN s.search_term_lower.str
                            ELSE s.search_term.str
             folded == IF s.case_insensitive THEN StrLower(text) ELSE text
         IN  IF s.whole_words THEN search_term \in StrSplit(folded)
             ELSE StrContains(search_term, folded)

\* entity[tag_index] can be read: -len <= tag_index < len.
HasTag(entity, tag_index) ==
    tag_index < Len(entity.tags) /\ tag_index >= -Len(entity.tags)

\* entity[tag_index]; a negative index counts from the end.
TagAt(entity, tag_index) ==
    IF tag_index >= 0 THEN entity.tags[tag_index + 1]
    ELSE entity.tags[Len(entity.tags) + tag_index + 1]

\* The while loop of SearchIndex._find: the object after it and what _find
\* returns, IndexError when entity[tag_index] raises it.
RECURSIVE SearchIndex_find_loop(_, _)
SearchIndex_find_loop(s, backward) ==
    IF s.end_of_index THEN [s |-> s, ret |-> NOT_FOUND]
    ELSE LET current == SearchIndex_current_entity(s)
             moved == IF backward THEN SearchIndex_move_cursor_backward(s)
                      ELSE SearchIndex_move_cursor_forward(s)
         IN  IF IsRaised(current) THEN [s |-> s, ret |-> IndexError]
             ELSE IF ~HasTag(current.entity, current.tag_index)
             THEN [s |-> moved, ret |-> IndexError]
             ELSE LET tag == TagAt(current.entity, current.tag_index)
                  IN  IF SearchIndex_match(s, tag.code, tag.value)
                      THEN [s |-> moved, ret |-> current]
                      ELSE SearchIndex_find_loop(moved, backward)

\* SearchIndex._find with move_cursor_backward or move_cursor_forward
SearchIndex_find_moving(s, backward) ==
    IF /\ s.entities # <<>>
       /\ s.search_term # None
       /\ s.search_term.str # <<>>
       /\ ~s.end_of_index
    THEN SearchIndex_find_loop(s, backward)
    ELSE [s |-> s, ret |-> NOT_FOUND]

\* SearchIndex.find
SearchIndex_find(s, term, backward, reset_index) ==
    LET named == SearchIndex_reset_search_term(s, term)
        start == IF reset_index THEN SearchIndex_reset_cursor(named, backward) ELSE named
    IN  IF Len(start.entities) # 0 /\ ~start.end_of_index
        THEN SearchIndex_find_moving(start, backward)
        ELSE [s |-> start, ret |-> NOT_FOUND]

\* ------------------------------------------------------------ DXFDocument

VARIABLES
    file,           \* the DXF file on disk
    filename,       \* DXFDocument.filename
    sections,       \* DXFDocument.sections
    handle_index,   \* DXFDocument.handle_index, None before the first update
    line_index,     \* DXFDocument.line_index, None before the first update
    loads,          \* calls of load() and update() so far
    last,           \* the last call and what it returned
    held,           \* the mapping a caller of update() passed before and still holds
    entity_history, \* an EntityHistory object
    search_index    \* a SearchIndex object

vars == <<file, filename, sections, handle_index, line_index, loads, last, held,
          entity_history, search_index>>

NoCall == [op |-> "none", arg |-> None, offset |-> 0, ret |-> None]

\* DXFDocument.max_line_number
DXFDocument_max_line_number ==
    IF line_index # None THEN line_index.max_line_number ELSE 1

\* Mutant of DXFDocument_get_line_number: one line per tag of the offset.
DXFDocument_get_line_number_one_line(entity, offset) ==
    IF line_index # None
    THEN LineIndex_get_start_line_for_entity(line_index, entity) + offset
    ELSE 0

\* DXFDocument.get_line_number
DXFDocument_get_line_number(entity, offset) ==
    IF line_index # None
    THEN LineIndex_get_start_line_for_entity(line_index, entity) + offset * 2
    ELSE 0

\* DXFDocument.get_entity_at_line
DXFDocument_get_entity_at_line(number) ==
    IF line_index # None THEN LineIndex_get_entity_at_line(line_index, number) ELSE None

\* DXFDocument.next_entity; AttributeError when handle_index is None.
DXFDocument_next_entity(entity) ==
    IF handle_index = None THEN AttributeError
    ELSE HandleIndex_next_entity(handle_index, entity)

\* DXFDocument.previous_entity
DXFDocument_previous_entity(entity) ==
    IF handle_index = None THEN AttributeError
    ELSE HandleIndex_previous_entity(handle_index, entity)

\* DXFDocument.get_entity
DXFDocument_get_entity(handle) ==
    IF handle_index # None THEN HandleIndex_get(handle_index, handle) ELSE None

\* DXFDocument.get_handle; AttributeError when handle_index is None.
DXFDocument_get_handle(entity) ==
    IF handle_index = None THEN AttributeError
    ELSE LET handle == HandleIndex_get_handle(handle_index, entity)
         IN  IF handle = NoHandle THEN None ELSE StrVal(handle)

\* Records that are in no section mapping: an empty one, one without handle,
\* one whose handle no file uses, one whose handle files use.
ForeignEmpty == MakeRecord(KindEmpty, <<0, 1>>)
ForeignNoHandle == MakeRecord(KindNoHandle, <<0, 2>>)
ForeignHandle == MakeRecord([handle |-> <<"3", "C">>, ntags |-> 2], <<0, 3>>)
ForeignUpper == MakeRecord(KindUpper, <<0, 4>>)
Foreign == {ForeignEmpty, ForeignNoHandle, ForeignHandle, ForeignUpper}

\* The records of the current section mapping.
Indexed == Range(Flatten(sections))

\* The records a caller may pass to a query.
Probes == Indexed \cup Foreign

\* The line numbers a caller may ask for: the file's lines and a few beyond.
ProbeLines == 0..(DXFDocument_max_line_number + EndSecLines + 1)

\* DXFDocument.__init__ without sections, for any file on disk.
Init ==
    /\ file \in Files
    /\ filename = ""
    /\ sections = <<>>
    /\ handle_index = None
    /\ line_index = None
    /\ loads = 0
    /\ last = NoCall
    /\ held = <<>>
    /\ entity_history = EntityHistory_init
    /\ search_index = SearchIndex_init(<<>>)

\* Mutant of update: the handle index, once built, is kept.
update_keeps_handle_index(secs) ==
    /\ sections' = secs
    /\ handle_index' = IF handle_index = None THEN HandleIndex_build(secs) ELSE handle_index
    /\ line_index' = LineIndex_build(secs)

\* DXFDocument.update
update(secs) ==
    /\ sections' = secs
    /\ handle_index' = HandleIndex_build(secs)
    /\ line_index' = LineIndex_build(secs)

\* DXFDocument.load
Load ==
    /\ loads < MaxLoads
    /\ loads' = loads + 1
    /\ filename' = "file.dxf"
    /\ update(load_section_dict(file, loads + 1))
    /\ last' = [op |-> "load", arg |-> None, offset |-> 0, ret |-> None]
    /\ UNCHANGED <<file, held, entity_history, search_index>>

Query(op, arg, offset, ret) ==
    /\ last' = [op |-> op, arg |-> arg, offset |-> offset, ret |-> ret]
    /\ UNCHANGED <<file, filename, sections, handle_index, line_index, loads, held,
                   entity_history, search_index>>

NextEntity ==
    \E r \in Probes : Query("next_entity", r, 0, DXFDocument_next_entity(r))

PreviousEntity ==
    \E r \in Probes : Query("previous_entity", r, 0, DXFDocument_previous_entity(r))

GetLineNumber ==
    \E r \in Probes, offset \in 0..MaxOffset :
        Query("get_line_number", r, offset, IntVal(DXFDocument_get_line_number(r, offset)))

GetEntityAtLine ==
    \E n \in ProbeLines :
        Query("get_entity_at_line", None, n, DXFDocument_get_entity_at_line(n))

Next ==
    \/ Load
    \/ NextEntity
    \/ PreviousEntity
    \/ GetLineNumber
    \/ GetEntityAtLine

Spec == Init /\ [][Next]_vars

\* -------------------------------------------- DXFDocument under update()

\* The section mappings a caller passes to update(): the empty mapping, one
\* record with handle, a record with the same handle in lower case after a
\* record without handle, two sections with another handle, and the example.
UpdateFiles ==
    { <<>>,
      << <<KindUpper>> >>,
      << <<KindNoHandle, KindLower>> >>,
      << <<KindNoHandle>>, <<[handle |-> <<"2", "B">>, ntags |-> 2]>> >>,
      ExampleFile }

\* The records of the mapping the caller still holds.
HeldRecords == Range(Flatten(held))

\* The handles a caller may ask for: those written in any record it knows
\* and the keys of the handle index.
HandleProbes ==
    ({Tags_get_handle(r) : r \in Probes \cup HeldRecords} \ {NoHandle})
        \cup (IF handle_index = None THEN {}
              ELSE {handle_index.index[i].key : i \in DOMAIN handle_index.index})

\* DXFDocument.__init__ without sections.
InitUpdate ==
    /\ file = <<>>
    /\ filename = ""
    /\ sections = <<>>
    /\ handle_index = None
    /\ line_index = None
    /\ loads = 0
    /\ last = NoCall
    /\ held = <<>>
    /\ entity_history = EntityHistory_init
    /\ search_index = SearchIndex_init(<<>>)

\* DXFDocument.update called with a mapping of newly created records; the
\* caller keeps the mapping it passed before.
Update ==
    \E f \in UpdateFiles :
        /\ loads < MaxLoads
        /\ loads' = loads + 1
        /\ update(load_section_dict(f, loads + 1))
        /\ held' = sections
        /\ last' = [op |-> "update", arg |-> None, offset |-> 0, ret |-> None]
        /\ UNCHANGED <<file, filename, entity_history, search_index>>

GetEntity ==
    \E handle \in HandleProbes :
        Query("get_entity", StrVal(handle), 0, DXFDocument_get_entity(handle))

GetHandle ==
    \E r \in Probes \cup HeldRecords :
        Query("get_handle", r, 0, DXFDocument_get_handle(r))

GetLineNumberHeld ==
    \E r \in HeldRecords, offset \in 0..MaxOffset :
        Query("get_line_number", r, offset, IntVal(DXFDocument_get_line_number(r, offset)))

MaxLineNumber ==
    Query("max_line_number", None, 0, IntVal(DXFDocument_max_line_number))

NextUpdate ==
    \/ Update
    \/ GetEntity
    \/ GetHandle
    \/ GetLineNumberHeld
    \/ MaxLineNumber
    \/ NextEntity
    \/ PreviousEntity
    \/ GetLineNumber
    \/ GetEntityAtLine

SpecUpdate == InitUpdate /\ [][NextUpdate]_vars

\* ------------------------------------------ EntityHistory as a state machine

\* The records a user visits: four records of one loaded section, two of
\* them with equal tags.
HistoryFile == << <<KindUpper, KindNoHandle, KindNoHandle, KindLower>> >>

HistoryRecords == Range(Flatten(load_section_dict(HistoryFile, 1)))

\* The variables of the document, which no call on the history changes.
docvars == <<file, filename, sections, handle_index, line_index, loads, held>>

\* EntityHistory.__init__
InitHistory == InitUpdate

\* A call on the history: the object before it, the argument, the return value.
Called(op, arg, ret) == [op |-> op, arg |-> arg, ret |-> ret, before |-> entity_history]

Stored == Len(entity_history.history) + Len(entity_history.time_travel)

HistoryAppend ==
    \E entity \in HistoryRecords :
        /\ Stored < MaxHistory
        /\ entity_history' = EntityHistory_append(entity_history, entity)
        /\ last' = Called("append", entity, None)
        /\ UNCHANGED <<docvars, search_index>>

HistoryBack ==
    LET done == EntityHistory_back(entity_history)
    IN  /\ done.h = entity_history \/ Stored < MaxHistory
        /\ entity_history' = done.h
        /\ last' = Called("back", None, done.ret)
        /\ UNCHANGED <<docvars, search_index>>

HistoryForward ==
    LET done == EntityHistory_forward(entity_history)
    IN  /\ done.h = entity_history \/ Stored < MaxHistory
        /\ entity_history' = done.h
        /\ last' = Called("forward", None, done.ret)
        /\ UNCHANGED <<docvars, search_index>>

HistoryClear ==
    /\ entity_history' = EntityHistory_clear(entity_history)
    /\ last' = Called("clear", None, None)
    /\ UNCHANGED <<docvars, search_index>>

NextHistory ==
    \/ HistoryAppend
    \/ HistoryBack
    \/ HistoryForward
    \/ HistoryClear

SpecHistory == InitHistory /\ [][NextHistory]_vars

\* -------------------------------------------- SearchIndex as a state machine

MaxEntities == 2

\* The tags of the records searched, every value with its type: a record
\* with two str tags, one of them of two words and with an upper-case letter;
\* a record with an int tag and a str tag; a record without tags.
SearchKindText ==
    << [code |-> 0, value |-> StrVal(<<"a", "b">>)],
       [code |-> 8, value |-> StrVal(<<"A", "b", " ", "c">>)] >>

SearchKindNumber ==
    << [code |-> 70, value |-> IntVal(10)],
       [code |-> 1, value |-> StrVal(<<"a", "b">>)] >>

SearchKindEmpty == <<>>

SearchKinds == {SearchKindText, SearchKindNumber, SearchKindEmpty}

\* A record with the tags of kind, created as the object id.
MakeSearchRecord(kind, id) ==
    [id |-> id,
     tags |-> [j \in DOMAIN kind |->
                  [tid |-> <<id, j>>, code |-> kind[j].code, value |-> kind[j].value]]]

\* The record lists a SearchIndex is built over.
SearchLists ==
    {[i \in DOMAIN kinds |-> MakeSearchRecord(kinds[i], <<1, i>>)] :
        kinds \in SeqsUpTo(SearchKinds, MaxEntities)}

\* The search terms a caller passes to find().
Terms ==
    { <<>>, <<"a", "b">>, <<"A", "b">>, <<"c">>, <<"1", "0">>, <<"1">> }

\* SearchIndex.__init__ over any list of records.
InitSearch ==
    /\ file = <<>>
    /\ filename = ""
    /\ sections = <<>>
    /\ handle_index = None
    /\ line_index = None
    /\ loads = 0
    /\ last = NoCall
    /\ held = <<>>
    /\ entity_history = EntityHistory_init
    /\ \E entities \in SearchLists : search_index = SearchIndex_init(entities)

\* A call on the search index: the arguments and the return value.
Searched(op, arg, ret) == [op |-> op, arg |-> arg, ret |-> ret]

SearchFind ==
    \E term \in Terms, backward \in BOOLEAN, reset_index \in BOOLEAN :
        LET done == SearchIndex_find(search_index, term, backward, reset_index)
        IN  /\ search_index' = done.s
            /\ last' = Searched("find", [term |-> term, backward |-> backward,
                                         reset_index |-> reset_index], done.ret)
            /\ UNCHANGED <<docvars, entity_history>>

\* Assignment to one of the attributes case_insensitive, whole_words, numbers.
SearchSetFlag ==
    \E flag \in {"case_insensitive", "whole_words", "numbers"} :
        /\ search_index' = [search_index EXCEPT ![flag] = ~@]
        /\ last' = Searched("set_flag", None, None)
        /\ UNCHANGED <<docvars, entity_history>>

SearchResetCursor ==
    \E backward \in BOOLEAN :
        /\ search_index' = SearchIndex_reset_cursor(search_index, backward)
        /\ last' = Searched("reset_cursor", [backward |-> backward], None)
        /\ UNCHANGED <<docvars, entity_history>>

SearchMoveCursorForward ==
    /\ search_index' = SearchIndex_move_cursor_forward(search_index)
    /\ last' = Searched("move_cursor_forward", None,
                        IF SearchIndex_move_cursor_forward_raises(search_index)
                        THEN IndexError ELSE None)
    /\ UNCHANGED <<docvars, entity_history>>

SearchMoveCursorBackward ==
    /\ search_index' = SearchIndex_move_cursor_backward(search_index)
    /\ last' = Searched("move_cursor_backward", None,
                        IF SearchIndex_move_cursor_backward_raises(search_index)
                        THEN IndexError ELSE None)
    /\ UNCHANGED <<docvars, entity_history>>

MaxUpdated == 2

\* The records a caller of update_entities() and set_current_entity() holds:
\* two objects with the same tags, one with other tags, one without tags.
SearchPool ==
    { MakeSearchRecord(SearchKindText, <<1, 1>>),
      MakeSearchRecord(SearchKindText, <<1, 2>>),
      MakeSearchRecord(SearchKindNumber, <<1, 2>>),
      MakeSearchRecord(SearchKindEmpty, <<1, 1>>) }

\* The lists passed to update_entities().
UpdateLists == SeqsUpTo(SearchPool, MaxUpdated)

\* update_entities(entities); current_entity() is called before the list is
\* replaced, and nothing is written when it raises.
UpdateEntitiesTo(entities) ==
    LET current == SearchIndex_current_entity(search_index)
    IN  /\ search_index' = IF IsRaised(current) THEN search_index
                           ELSE SearchIndex_update_entities(search_index, entities)
        /\ last' = Searched("update_entities", current,
                            IF IsRaised(current) THEN IndexError ELSE None)
        /\ UNCHANGED <<docvars, entity_history>>

SearchUpdateEntities == \E entities \in UpdateLists : UpdateEntitiesTo(entities)

\* set_current_entity(entity, tag_index) with the index of a tag of entity,
\* or the default 0.
SearchSetCurrentEntity ==
    \E entity \in SearchPool :
        \E tag_index \in {0} \cup {j - 1 : j \in DOMAIN entity.tags} :
            /\ search_index' = SearchIndex_set_current_entity(search_index, entity, tag_index)
            /\ last' = Searched("set_current_entity",
                                [entity |-> entity, tag_index |-> tag_index], None)
            /\ UNCHANGED <<docvars, entity_history>>

NextSearch ==
    \/ SearchFind
    \/ SearchSetFlag
    \/ SearchResetCursor
    \/ SearchMoveCursorForward
    \/ SearchMoveCursorBackward

SpecSearch == InitSearch /\ [][NextSearch]_vars

\* ------------------------------------------- the cursor of a SearchIndex

\* Every method that writes the cursor, the record list or end-of-index; the
\* options keep the values __init__ gives them.
NextCursor ==
    \/ SearchFind
    \/ SearchResetCursor
    \/ SearchMoveCursorForward
    \/ SearchMoveCursorBackward
    \/ SearchUpdateEntities
    \/ SearchSetCurrentEntity

SpecCursor == InitSearch /\ [][NextCursor]_vars

\* A SearchIndex whose records all have tags, at construction and in every
\* list passed to update_entities().
Tagged(entities) == \A i \in DOMAIN entities : entities[i].tags # <<>>

InitTagged ==
    /\ InitSearch
    /\ Tagged(search_index.entities)

SearchUpdateTagged ==
    \E entities \in {l \in UpdateLists : Tagged(l)} : UpdateEntitiesTo(entities)

NextTagged ==
    \/ SearchFind
    \/ SearchResetCursor
    \/ SearchMoveCursorForward
    \/ SearchMoveCursorBackward
    \/ SearchUpdateTagged

SpecTagged == InitTagged /\ [][NextTagged]_vars

\* ------------------------------------------------ SearchIndex._match alone

\* The tags _match is called with: "foobar", two words with an upper-case
\* letter, the int 10, the str "10", a str of blanks only.
MatchTags ==
    { [code |-> 0, value |-> StrVal(<<"f", "o", "o", "b", "a", "r">>)],
      [code |-> 8, value |-> StrVal(<<"A", "b", " ", "c">>)],
      [code |-> 70, value |-> IntVal(10)],
      [code |-> 1, value |-> StrVal(<<"1", "0">>)],
      [code |-> 3, value |-> StrVal(<<" ", " ">>)] }

\* The search terms of _match: those of find, "foo", and one with a blank.
MatchTerms == Terms \cup { <<"f", "o", "o">>, <<"b", " ", "c">> }

\* A bool as a return value.
BoolVal(b) == [bool |-> b]

InitMatch == InitUpdate

SearchResetSearchTerm ==
    \E term \in MatchTerms :
        /\ search_index' = SearchIndex_reset_search_term(search_index, term)
        /\ last' = Searched("reset_search_term", StrVal(term), None)
        /\ UNCHANGED <<docvars, entity_history>>

\* _match(code, value), which _find calls only after a search term is set.
SearchMatch ==
    \E tag \in MatchTags :
        /\ search_index.search_term # None
        /\ last' = Searched("_match", tag,
                            BoolVal(SearchIndex_match(search_index, tag.code, tag.value)))
        /\ UNCHANGED <<docvars, entity_history, search_index>>

NextMatch ==
    \/ SearchSetFlag
    \/ SearchResetSearchTerm
    \/ SearchMatch

SpecMatch == InitMatch /\ [][NextMatch]_vars

\* ------------------------------------------------------ checked properties

\* Both indices of the document are built.
Loaded == handle_index # None /\ line_index # None

\* The records of the current section mapping in file order.
Flat == Flatten(sections)

RECURSIVE TagCount(_)
TagCount(records) ==
    IF records = <<>> THEN 0 ELSE Len(Head(records).tags) + TagCount(Tail(records))

\* The tags of all records that precede record i of section s in file order.
TagsBefore(s, i) ==
    TagCount(Flatten(SubSeq(sections, 1, s - 1)) \o SubSeq(sections[s], 1, i - 1))

\* The start line the layout rule gives record i of section s.
LayoutStart(s, i) == 1 + 2 * TagsBefore(s, i) + 2 * (s - 1)

\* C1: the start line LineIndex assigns to an indexed record is 1, plus two
\* lines per tag of every preceding record, plus two lines per preceding
\* section (empty ones included); records of one section follow each other
\* without a gap.
C1_StartLineLayout ==
    Loaded =>
        \A s \in DOMAIN sections : \A i \in DOMAIN sections[s] :
            LineIndex_get_start_line_for_entity(line_index, sections[s][i]) = LayoutStart(s, i)

\* C1 witness: get_line_number was asked for the second record of a second
\* section that follows an empty first section, and answered by the rule.
C1_Witness ==
    /\ Loaded
    /\ Len(sections) = 2 /\ sections[1] = <<>> /\ Len(sections[2]) >= 2
    /\ Len(sections[2][1].tags) > 0
    /\ last.op = "get_line_number" /\ last.offset = 0
    /\ last.arg = sections[2][2]
    /\ last.ret = IntVal(3 + 2 * Len(sections[2][1].tags))

\* The start lines LineIndex reports for the records in file order.
StartLines == [k \in DOMAIN Flat |-> LineIndex_get_start_line_for_entity(line_index, Flat[k])]

\* The start lines stored in the entries HandleIndex created, in file order.
EntryStartLines == [k \in DOMAIN handle_index.entries |-> handle_index.entries[k].start_line_number]

\* The document holds the indices of the example file.
ExampleLoaded == Loaded /\ file = ExampleFile

\* C2 as stated: the example's start lines are 1, 9, 15 and max_line_number 22.
C2_Original ==
    ExampleLoaded =>
        /\ StartLines = <<1, 9, 15>>
        /\ DXFDocument_max_line_number = 22

\* C2 as amended: for HEADER = [rec1 (3 tags)], ENTITIES = [rec2 (2 tags),
\* rec3 (4 tags)] both indices report the start lines 1, 9, 13 and
\* max_line_number 20.
C2_ExampleLayout ==
    ExampleLoaded =>
        /\ StartLines = <<1, 9, 13>>
        /\ EntryStartLines = <<1, 9, 13>>
        /\ line_index.max_line_number = 20
        /\ handle_index.max_line_number = 20
        /\ DXFDocument_max_line_number = 20

\* C2 witness: get_line_number was asked for rec3 of the example and said 13.
C2_Witness ==
    /\ ExampleLoaded
    /\ last.op = "get_line_number" /\ last.offset = 0
    /\ last.arg = Flat[3]
    /\ last.ret = IntVal(13)

\* C3: HandleIndex.max_line_number equals LineIndex.max_line_number, and both
\* are the last record's start line + 2 * its tag count - 1, or 1 when the
\* mapping holds no record.
C3_MaxLineNumbersAgree ==
    Loaded =>
        /\ handle_index.max_line_number = line_index.max_line_number
        /\ line_index.max_line_number =
               IF Flat = <<>> THEN 1
               ELSE StartLines[Len(Flat)] + 2 * Len(Flat[Len(Flat)].tags) - 1

\* C4: iterating the handle-to-entry mapping of HandleIndex yields the records
\* of the section mapping, each once, in file order.
C4_IterationIsFileOrder == Loaded => HandleIndex_values(handle_index) = Flat

\* The positions in file order of the records without a handle tag.
NoHandlePositions == {k \in DOMAIN Flat : Tags_get_handle(Flat[k]) = NoHandle}

\* Record k is the Rank(k)-th record without a handle tag.
Rank(k) == Cardinality({j \in NoHandlePositions : j <= k})

\* The keys of the index whose entry holds the record.
StoredKeys(entity) ==
    {handle_index.index[i].key :
        i \in {j \in DOMAIN handle_index.index :
                  handle_index.entries[handle_index.index[j].val].tags = entity}}

\* The number an upper-case hexadecimal numeral stands for.
RECURSIVE HexValue(_)
HexValue(digits) ==
    IF digits = <<>> THEN 0
    ELSE 16 * HexValue(SubSeq(digits, 1, Len(digits) - 1))
         + ((CHOOSE v \in 1..16 : HexDigits[v] = digits[Len(digits)]) - 1)

\* key is "*" followed by n in upper-case hexadecimal.
IsSyntheticHandleOf(key, n) ==
    /\ Len(key) >= 2 /\ key[1] = "*" /\ key[2] # "0"
    /\ \A i \in 2..Len(key) : key[i] \in Range(HexDigits)
    /\ HexValue(Tail(key)) = n

\* C5: the k-th record without a handle tag is stored under "*" followed by k
\* in upper-case hex; these handles are pairwise distinct, increase in file
\* order, equal no real handle, and contains() is true for each.
C5_SyntheticHandles ==
    Loaded =>
        /\ \A k \in NoHandlePositions :
               \E key \in StoredKeys(Flat[k]) :
                   /\ IsSyntheticHandleOf(key, Rank(k))
                   /\ HandleIndex_get(handle_index, key) = Flat[k]
                   /\ HandleIndex_contains(handle_index, key)
                   /\ \A j \in DOMAIN Flat :
                          Tags_get_handle(Flat[j]) # NoHandle =>
                              /\ Tags_get_handle(Flat[j]) # key
                              /\ StrUpper(Tags_get_handle(Flat[j])) # key
        /\ \A k1, k2 \in NoHandlePositions :
               k1 < k2 =>
                   \A key1 \in StoredKeys(Flat[k1]), key2 \in StoredKeys(Flat[k2]) :
                       key1 # key2 /\ HexValue(Tail(key1)) < HexValue(Tail(key2))

\* C5 witness: the index of the long file holds its 10th and its 16th record
\* without handle under "*A" and "*10".
C5_Witness ==
    /\ Loaded
    /\ \E k \in NoHandlePositions :
           Rank(k) = 10 /\ HandleIndex_get(handle_index, <<"*", "A">>) = Flat[k]
    /\ \E k \in NoHandlePositions :
           Rank(k) = 16 /\ HandleIndex_get(handle_index, <<"*", "1", "0">>) = Flat[k]
    /\ \E j \in DOMAIN Flat : Tags_get_handle(Flat[j]) # NoHandle

\* f(g(...)) for calls that may raise.
AndThenNext(v) == IF IsRaised(v) THEN v ELSE HandleIndex_next_entity(handle_index, v)

\* C6: next_entity(previous_entity(r)) is r for every indexed record r that
\* is neither the first nor the last in file order.
C6_NextOfPrevious ==
    Loaded =>
        \A k \in 2..(Len(Flat) - 1) :
            AndThenNext(HandleIndex_previous_entity(handle_index, Flat[k])) = Flat[k]

\* C7: next_entity of the last record is that record, previous_entity of the
\* first record is that record, and neither call raises.
C7_ClampAtEnds ==
    (Loaded /\ Flat # <<>>) =>
        /\ HandleIndex_next_entity(handle_index, Flat[Len(Flat)]) = Flat[Len(Flat)]
        /\ HandleIndex_previous_entity(handle_index, Flat[1]) = Flat[1]

\* The record's handle is None or no key of the index.
Unresolved(entity) ==
    \/ HandleIndex_get_handle(handle_index, entity) = NoHandle
    \/ ~HandleIndex_contains(handle_index, HandleIndex_get_handle(handle_index, entity))

\* C8: next_entity and previous_entity never raise, whatever the record, and
\* return the record itself when its handle resolves to no index entry.
C8_NavigationNeverRaises ==
    Loaded =>
        \A r \in Probes :
            /\ ~IsRaised(HandleIndex_next_entity(handle_index, r))
            /\ ~IsRaised(HandleIndex_previous_entity(handle_index, r))
            /\ Unresolved(r) =>
                   /\ HandleIndex_next_entity(handle_index, r) = r
                   /\ HandleIndex_previous_entity(handle_index, r) = r

\* get_entity_at_line(get_start_line_for_entity(r)) is r.
RoundTrip(r) ==
    LineIndex_get_entity_at_line(
        line_index, LineIndex_get_start_line_for_entity(line_index, r)) = r

\* C9 as stated: the start lines of the sorted line index increase strictly,
\* and every indexed record is found again at its start line.
C9_Original ==
    Loaded =>
        /\ \A i \in 1..(Len(line_index.line_index) - 1) :
               line_index.line_index[i].start < line_index.line_index[i + 1].start
        /\ \A r \in Indexed : RoundTrip(r)

\* C9 as amended: the start lines of the sorted line index never decrease and
\* increase strictly after every record that has a tag, and every indexed
\* record that has a tag is found again at its start line.
C9_LineIndexSorted ==
    Loaded =>
        /\ \A i \in 1..(Len(line_index.line_index) - 1) :
               /\ line_index.line_index[i].start <= line_index.line_index[i + 1].start
               /\ Len(line_index.line_index[i].entity.tags) > 0 =>
                      line_index.line_index[i].start < line_index.line_index[i + 1].start
        /\ \A r \in Indexed : Len(r.tags) > 0 => RoundTrip(r)

\* C9 witness: get_entity_at_line was asked for the start line of a record
\* that follows an empty record of the same section, and returned it.
C9_Witness ==
    /\ Loaded
    /\ last.op = "get_entity_at_line"
    /\ \E s \in DOMAIN sections : \E i \in 2..Len(sections[s]) :
           /\ Len(sections[s][i - 1].tags) = 0
           /\ Len(sections[s][i].tags) > 0
           /\ last.offset = LineIndex_get_start_line_for_entity(line_index, sections[s][i])
           /\ last.ret = sections[s][i]

\* get_line_number(record, offset) = get_line_number(record, 0) + 2 * offset
\* for every record and offset a caller may pass.
OffsetRule ==
    \A r \in Probes, offset \in 0..MaxOffset :
        DXFDocument_get_line_number(r, offset) = DXFDocument_get_line_number(r, 0) + 2 * offset

\* C10 as stated: the offset rule holds on any DXFDocument.
C10_Original == OffsetRule

\* C10 as amended: the offset rule holds on every DXFDocument whose indices
\* have been built; before that get_line_number returns 0 for every offset.
C10_OffsetRule ==
    /\ line_index # None => OffsetRule
    /\ line_index = None =>
           \A r \in Probes, offset \in 0..MaxOffset : DXFDocument_get_line_number(r, offset) = 0

\* C10 witness: get_line_number was asked for an indexed record with an offset
\* and returned the record's start line plus two lines per tag of the offset.
C10_Witness ==
    /\ Loaded
    /\ last.op = "get_line_number" /\ last.offset > 0
    /\ last.arg \in Indexed
    /\ LineIndex_get_start_line_for_entity(line_index, last.arg) > 1
    /\ last.ret = IntVal(LineIndex_get_start_line_for_entity(line_index, last.arg)
                         + 2 * last.offset)

\* The positions of the records that, by the start lines `starts` in file
\* order, start at line n or before.
StartedBy(starts, n) == {k \in DOMAIN starts : starts[k] <= n}

\* The greatest element of a non-empty set of numbers.
Greatest(S) == CHOOSE k \in S : \A j \in S : j <= k

\* C11: LineIndex.get_entity_at_line(n) is None when no record is indexed, the
\* first record when n is before the first start line, and otherwise the last
\* record in file order whose start line is <= n (also for a line in the gap
\* after a section and for a line beyond max_line_number).
C11_LineLookup ==
    Loaded =>
        LET flat == Flat
            starts == StartLines
        IN  \A n \in ProbeLines \cup {-1} :
                LineIndex_get_entity_at_line(line_index, n) =
                    IF flat = <<>> THEN None
                    ELSE IF StartedBy(starts, n) = {} THEN flat[1]
                    ELSE flat[Greatest(StartedBy(starts, n))]

\* C11 witness: get_entity_at_line was asked for the line just before the
\* first record of the second section, a line of the gap, and returned the
\* last record of the first section.
C11_Witness ==
    /\ Loaded
    /\ Len(sections) = 2 /\ sections[1] # <<>> /\ sections[2] # <<>>
    /\ Len(sections[1][Len(sections[1])].tags) > 0
    /\ last.op = "get_entity_at_line"
    /\ last.offset = LineIndex_get_start_line_for_entity(line_index, sections[2][1]) - 1
    /\ last.ret = sections[1][Len(sections[1])]

\* C12: HandleIndex.get_entity_at_line(n) is the last record in file order
\* whose start line is <= n, and None when the index is empty or n is before
\* the first record's start line.
C12_HandleLineLookup ==
    Loaded =>
        \A n \in ProbeLines \cup {-1} :
            HandleIndex_get_entity_at_line(handle_index, n) =
                IF StartedBy(StartLines, n) = {} THEN None
                ELSE Flat[Greatest(StartedBy(StartLines, n))]

\* C13: for every indexed record r, get(get_handle(r)) is r in any letter
\* case of the handle and contains(get_handle(r)) is true; get_handle is None
\* only for an empty record or for a record without handle that is not
\* indexed.
C13_HandleRoundTrip ==
    Loaded =>
        /\ \A r \in Indexed :
               LET handle == HandleIndex_get_handle(handle_index, r)
               IN  handle # NoHandle =>
                       /\ HandleIndex_get(handle_index, handle) = r
                       /\ HandleIndex_get(handle_index, StrUpper(handle)) = r
                       /\ HandleIndex_get(handle_index, StrLower(handle)) = r
                       /\ HandleIndex_contains(handle_index, handle)
        /\ \A r \in Probes :
               HandleIndex_get_handle(handle_index, r) = NoHandle =>
                   \/ Len(r.tags) = 0
                   \/ Tags_get_handle(r) = NoHandle /\ r \notin Indexed

\* The handles written in the records of a section mapping, in upper case.
HandlesOf(secs) ==
    {StrUpper(Tags_get_handle(r)) : r \in Range(Flatten(secs))} \ {StrUpper(NoHandle)}

RecA == load_section_dict(HistoryFile, 1)[1][1]
RecB == load_section_dict(HistoryFile, 1)[1][2]
RecC == load_section_dict(HistoryFile, 1)[1][3]
RecD == load_section_dict(HistoryFile, 1)[1][4]

\* The history after append(A), append(B), append(C) from empty.
AfterABC ==
    entity_history = [history |-> <<RecA, RecB, RecC>>, index |-> 2, time_travel |-> <<>>]

\* Two back() calls and append(entity) on the history.
BackBackAppend(entity) ==
    LET first == EntityHistory_back(entity_history)
        second == EntityHistory_back(first.h)
    IN  [first |-> first.ret, second |-> second.ret,
         h |-> EntityHistory_append(second.h, entity)]

\* C15 as stated: after append(A), append(B), append(C), two back() calls
\* return B then A, and after append(D) the content is [A, B, C, A, D].
C15_Original ==
    AfterABC =>
        /\ BackBackAppend(RecD).first = RecB
        /\ BackBackAppend(RecD).second = RecA
        /\ EntityHistory_content(BackBackAppend(RecD).h) = <<RecA, RecB, RecC, RecA, RecD>>

\* C15 (amended): after append(A), append(B), append(C), two back() calls
\* return B then A, and after append(D) the content is [A, B, C, B, A, D]:
\* both records visited on the way back are flushed into the history.
C15_FlushedHistory ==
    AfterABC =>
        /\ BackBackAppend(RecD).first = RecB
        /\ BackBackAppend(RecD).second = RecA
        /\ EntityHistory_content(BackBackAppend(RecD).h)
               = <<RecA, RecB, RecC, RecB, RecA, RecD>>

\* C15 witness: append(D) was called after back() had returned A with B
\* before it, on the history [A, B, C], and the content is [A, B, C, B, A, D].
C15_Witness ==
    /\ last.op = "append" /\ last.arg = RecD
    /\ last.before = [history |-> <<RecA, RecB, RecC>>, index |-> 0,
                      time_travel |-> <<RecB, RecA>>]
    /\ EntityHistory_content(entity_history) = <<RecA, RecB, RecC, RecB, RecA, RecD>>

\* C16: append(x) right after append(x) changes neither the history nor the
\* cursor nor the redo buffer.
C16_DoubleAppend ==
    last.op = "append" =>
        EntityHistory_append(entity_history, last.arg) = entity_history

\* C16 witness: append(x) was called on a history that append(x) had left:
\* x is the last entry, the redo buffer is empty, and nothing changed.
C16_Witness ==
    /\ last.op = "append"
    /\ last.before.time_travel = <<>>
    /\ Len(last.before.history) > 1
    /\ last.before.history[Len(last.before.history)] = last.arg
    /\ entity_history = last.before

\* C17 as stated: whenever the history is not empty, append(e) with e the
\* last history entry changes neither the content nor the cursor.
C17_Original ==
    entity_history.history # <<>> =>
        LET h == entity_history
            done == EntityHistory_append(h, h.history[Len(h.history)])
        IN  done.history = h.history /\ done.index = h.index

\* C17 (amended): whenever the history is not empty and the redo buffer is
\* empty, append(e) with e the last history entry changes nothing.
C17_AppendLastIsNoOp ==
    (entity_history.history # <<>> /\ entity_history.time_travel = <<>>) =>
        LET h == entity_history
        IN  EntityHistory_append(h, h.history[Len(h.history)]) = h

\* C17 witness: append(e) was called with e the last entry, the redo buffer
\* empty and the cursor not on the last entry, and nothing changed.
C17_Witness ==
    /\ last.op = "append"
    /\ last.before.time_travel = <<>>
    /\ last.before.history # <<>>
    /\ last.before.history[Len(last.before.history)] = last.arg
    /\ last.before.index # Len(last.before.history) - 1
    /\ entity_history = last.before

\* C18: after any append(e) the redo buffer is empty, the cursor is the last
\* history index, and forward() returns the last entry and changes nothing.
C18_AppendEndsAtLast ==
    last.op = "append" =>
        /\ entity_history.time_travel = <<>>
        /\ entity_history.index = Len(entity_history.history) - 1
        /\ EntityHistory_forward(entity_history) =
               [h |-> entity_history,
                ret |-> entity_history.history[Len(entity_history.history)]]

\* C19: back() and forward() are clamped single steps. On an empty history
\* both return None and change nothing; back() with the cursor above 0 and
\* forward() with the cursor below the last index move the cursor by one,
\* push the record now current onto the redo buffer and return it; back() at
\* 0 returns the first and forward() at the last index the last record, and
\* change nothing.
C19_ClampedSteps ==
    LET h == entity_history
        n == Len(h.history)
        Step(to) == [h |-> [history |-> h.history, index |-> to,
                            time_travel |-> Append(h.time_travel, h.history[to + 1])],
                     ret |-> h.history[to + 1]]
    IN  /\ n = 0 => /\ EntityHistory_back(h) = [h |-> h, ret |-> None]
                    /\ EntityHistory_forward(h) = [h |-> h, ret |-> None]
        /\ (n > 0 /\ h.index > 0) => EntityHistory_back(h) = Step(h.index - 1)
        /\ (n > 0 /\ h.index = 0) => EntityHistory_back(h) = [h |-> h, ret |-> h.history[1]]
        /\ (n > 0 /\ h.index < n - 1) => EntityHistory_forward(h) = Step(h.index + 1)
        /\ (n > 0 /\ h.index = n - 1) =>
               EntityHistory_forward(h) = [h |-> h, ret |-> h.history[n]]
        /\ h.index >= 0 /\ h.index <= IF n = 0 THEN 0 ELSE n - 1

\* C19 witness: forward() was called with a non-empty redo buffer and the
\* cursor two below the last index, moved the cursor up by one, pushed the
\* record it returned, and left the history as it was.
C19_Witness ==
    /\ last.op = "forward"
    /\ last.before.time_travel # <<>>
    /\ last.before.index = Len(last.before.history) - 3
    /\ entity_history.index = last.before.index + 1
    /\ last.ret = entity_history.history[entity_history.index + 1]
    /\ entity_history.time_travel = Append(last.before.time_travel, last.ret)
    /\ entity_history.history = last.before.history

\* The positions (record, tag), counted from 1 in file order, of the tags of
\* the index s that match its search term under its flags.
Matches(s) ==
    {p \in UNION {{<<i, j>> : j \in DOMAIN s.entities[i].tags} : i \in DOMAIN s.entities} :
        SearchIndex_match(s, s.entities[p[1]].tags[p[2]].code,
                          s.entities[p[1]].tags[p[2]].value)}

\* Position p is before position q in file order, or is q.
Before(p, q) == p[1] < q[1] \/ (p[1] = q[1] /\ p[2] <= q[2])

FirstOf(P) == CHOOSE p \in P : \A q \in P : Before(p, q)
LastOf(P) == CHOOSE p \in P : \A q \in P : Before(q, p)

\* What find() returns for the position p of the index s.
Found(s, p) == [entity |-> s.entities[p[1]], tag_index |-> p[2] - 1]

\* C20: find(term, reset_index=True) with a non-empty term returns the first
\* position in file order whose tag matches under the current flags, with
\* backward=True the last one, and (None, -1) when the record list is empty
\* or no tag matches.
C20_FindFromReset ==
    \A term \in Terms \ {<<>>}, backward \in BOOLEAN :
        LET named == SearchIndex_reset_search_term(search_index, term)
            done == SearchIndex_find(search_index, term, backward, TRUE)
        IN  done.ret =
                IF Matches(named) = {} THEN NOT_FOUND
                ELSE IF backward THEN Found(named, LastOf(Matches(named)))
                ELSE Found(named, FirstOf(Matches(named)))

\* C24: append(e) on history H and redo buffer R leaves the redo buffer empty
\* and the history H ++ R ++ [e], or H ++ R when e is the last element of
\* H ++ R; whenever e is added the cursor is the new last index.
C24_AppendFlushes ==
    \A e \in HistoryRecords :
        LET flushed == entity_history.history \o entity_history.time_travel
            done == EntityHistory_append(entity_history, e)
            skipped == flushed # <<>> /\ flushed[Len(flushed)] = e
        IN  /\ done.time_travel = <<>>
            /\ skipped => done.history = flushed
            /\ ~skipped => /\ done.history = flushed \o <<e>>
                           /\ done.index = Len(done.history) - 1

\* C24 witness: append(e) was called with a redo buffer of two records and e
\* not the last of them; the history is H ++ R ++ [e] and the cursor is on e.
C24_Witness ==
    /\ last.op = "append"
    /\ Len(last.before.time_travel) = 2
    /\ entity_history.history =
           last.before.history \o last.before.time_travel \o <<last.arg>>
    /\ entity_history.time_travel = <<>>
    /\ entity_history.index = Len(entity_history.history) - 1

\* Sequence p is a prefix of sequence s.
IsPrefix(p, s) == Len(p) <= Len(s) /\ SubSeq(s, 1, Len(p)) = p

\* C25: across append, back and forward the history before the call is a
\* prefix of the history after it; back and forward leave the history as it
\* is; clear leaves history and redo buffer empty and the cursor 0.
C25_AppendOnly ==
    /\ last.op \in {"append", "back", "forward"} =>
           IsPrefix(last.before.history, entity_history.history)
    /\ last.op \in {"back", "forward"} =>
           entity_history.history = last.before.history
    /\ last.op = "clear" =>
           entity_history = [history |-> <<>>, index |-> 0, time_travel |-> <<>>]

\* C25 witness: clear was called on a history of at least three records with
\* the cursor above 0 and a non-empty redo buffer, and left all empty.
C25_Witness ==
    /\ last.op = "clear"
    /\ Len(last.before.history) >= 3
    /\ last.before.index > 0
    /\ last.before.time_travel # <<>>
    /\ entity_history = [history |-> <<>>, index |-> 0, time_travel |-> <<>>]

\* C28: if the history is empty the cursor is 0 and the redo buffer is empty;
\* otherwise 0 <= cursor < len(history); a non-empty redo buffer ends with
\* history[cursor]; right after append(e) history[cursor] is e.
C28_HistoryInvariant ==
    LET h == entity_history
    IN  /\ h.history = <<>> => h.index = 0 /\ h.time_travel = <<>>
        /\ h.history # <<>> => h.index >= 0 /\ h.index < Len(h.history)
        /\ h.time_travel # <<>> =>
               h.time_travel[Len(h.time_travel)] = h.history[h.index + 1]
        /\ last.op = "append" => h.history[h.index + 1] = last.arg

\* C28 witness: append(e) was called after back(), e being the record back()
\* had returned; the append was skipped after the flush, the cursor is not on
\* the last entry, and history[cursor] is e.
C28_Witness ==
    /\ last.op = "append"
    /\ last.before.time_travel # <<>>
    /\ entity_history.index = last.before.index
    /\ entity_history.index < Len(entity_history.history) - 1
    /\ entity_history.history[entity_history.index + 1] = last.arg

\* k calls of next_entity, each on what the call before returned, from v on;
\* a raised exception ends the walk.
RECURSIVE NextTimes(_, _)
NextTimes(v, k) ==
    IF k = 0 \/ IsRaised(v) THEN v
    ELSE NextTimes(HandleIndex_next_entity(handle_index, v), k - 1)

RECURSIVE PreviousTimes(_, _)
PreviousTimes(v, k) ==
    IF k = 0 \/ IsRaised(v) THEN v
    ELSE PreviousTimes(HandleIndex_previous_entity(handle_index, v), k - 1)

\* C27: from the first record, k calls of next_entity reach record k + 1 in
\* file order, and the last record after n - 1 calls and after every further
\* call; from the last record, k calls of previous_entity reach record n - k,
\* and the first record after n - 1 calls and after every further call. So
\* no record is skipped or visited twice, whatever the section mapping.
C27_Traversal ==
    (Loaded /\ Flat # <<>>) =>
        LET n == Len(Flat)
        IN  \A k \in 0..n :
                /\ NextTimes(Flat[1], k) = Flat[IF k + 1 <= n THEN k + 1 ELSE n]
                /\ PreviousTimes(Flat[n], k) = Flat[IF n - k >= 1 THEN n - k ELSE 1]

\* The words of text, read character by character: word is the word being
\* read, words the words read so far.
RECURSIVE WordsFrom(_, _, _)
WordsFrom(text, word, words) ==
    IF text = <<>> THEN (IF word = <<>> THEN words ELSE words \cup {word})
    ELSE IF Head(text) = " "
         THEN WordsFrom(Tail(text), <<>>, IF word = <<>> THEN words ELSE words \cup {word})
         ELSE WordsFrom(Tail(text), Append(word, Head(text)), words)

\* term is text with a prefix and a suffix taken off.
IsSubstring(term, text) ==
    \E i \in 0..Len(text), j \in 0..Len(text) :
        i <= j /\ [k \in 1..(j - i) |-> text[i + k]] = term

\* The text of a tag value: the characters of a str, the decimal digits of
\* an int.
TextOf(value) ==
    IF "str" \in DOMAIN value THEN value.str
    ELSE IF value.int = 10 THEN <<"1", "0">>
    ELSE <<"?">>

\* The predicate _match is to equal, for the term and the flags of s.
MatchReference(s, code, value) ==
    IF ~(code \in 0..9) /\ ~s.numbers THEN FALSE
    ELSE LET text == IF s.case_insensitive THEN StrLower(TextOf(value)) ELSE TextOf(value)
             term == IF s.case_insensitive THEN StrLower(s.search_term.str)
                     ELSE s.search_term.str
         IN  IF s.whole_words THEN term \in WordsFrom(text, <<>>, {})
             ELSE IsSubstring(term, text)

\* C22: _match(code, value) is false if the code is not string-typed and
\* numbers is off; otherwise, with the value as text (value and term in lower
\* case when case_insensitive), it is true iff the term is one of the words
\* of the value (whole_words on) or a substring of it (whole_words off). Term
\* "foo" matches "foobar" only with whole_words off, and the int 10 matches
\* term "10" only with numbers on.
C22_MatchReference ==
    search_index.search_term # None =>
        /\ \A tag \in MatchTags :
               SearchIndex_match(search_index, tag.code, tag.value)
                   = MatchReference(search_index, tag.code, tag.value)
        /\ search_index.search_term.str = <<"f", "o", "o">> =>
               (SearchIndex_match(search_index, 0, StrVal(<<"f", "o", "o", "b", "a", "r">>))
                    <=> ~search_index.whole_words)
        /\ search_index.search_term.str = <<"1", "0">> =>
               (SearchIndex_match(search_index, 70, IntVal(10)) <=> search_index.numbers)

\* C22 witness: with whole_words on and numbers on, _match was called with
\* term "10" on the int 10 and returned True.
C22_Witness ==
    /\ last.op = "_match"
    /\ last.arg = [code |-> 70, value |-> IntVal(10)]
    /\ search_index.search_term = StrVal(<<"1", "0">>)
    /\ search_index.whole_words /\ search_index.numbers
    /\ last.ret = BoolVal(TRUE)

\* The object s with the cursor on (i, j) and end-of-index as given.
CursorAt(s, i, j, end) ==
    [s EXCEPT !.current_entity_index = i, !.current_tag_index = j, !.end_of_index = end]

\* C26: with the cursor on a record of a non-empty list, move_cursor_forward
\* steps to the next tag of the current record, or to tag 0 of the next
\* record when the current one is exhausted, and move_cursor_backward steps
\* to the previous tag, or to the last tag of the previous record; at the last
\* tag of the last record (the first tag of the first record) the cursor
\* stays where it is and end-of-index is set. The cursor never wraps.
C26_CursorSteps ==
    LET s == search_index
        i == s.current_entity_index
        j == s.current_tag_index
        n == Len(s.entities)
    IN  (n > 0 /\ i < n) =>
            /\ SearchIndex_move_cursor_forward(s) =
                   IF j + 1 < Len(s.entities[i + 1].tags)
                   THEN CursorAt(s, i, j + 1, s.end_of_index)
                   ELSE IF i + 1 < n THEN CursorAt(s, i + 1, 0, s.end_of_index)
                   ELSE CursorAt(s, i, j, TRUE)
            /\ SearchIndex_move_cursor_backward(s) =
                   IF j > 0 THEN CursorAt(s, i, j - 1, s.end_of_index)
                   ELSE IF i > 0
                        THEN CursorAt(s, i - 1, Len(s.entities[i].tags) - 1, s.end_of_index)
                   ELSE CursorAt(s, i, j, TRUE)

\* C26 witness: move_cursor_forward was called on the last tag of the last of
\* two records; the cursor is still there and end-of-index is set.
C26_Witness ==
    /\ last.op = "move_cursor_forward"
    /\ last.ret = None
    /\ Len(search_index.entities) = 2
    /\ search_index.current_entity_index = 1
    /\ search_index.current_tag_index = Len(search_index.entities[2].tags) - 1
    /\ search_index.current_tag_index = 1
    /\ search_index.end_of_index

\* update_entities() was called with the cursor on a record, last.arg.entity,
\* and returned.
UpdatedOnRecord ==
    /\ last.op = "update_entities"
    /\ last.ret = None
    /\ last.arg # NOT_FOUND

\* C23: update_entities(new_list) keeps the logical cursor: when the cursor
\* was on the record c at tag index j and c, the same object, is in new_list,
\* current_entity() returns (c, j) afterwards, also when new_list holds other
\* records equal to c; when c is not in new_list the cursor is reset to
\* (0, 0).
C23_UpdateKeepsCursor ==
    UpdatedOnRecord =>
        IF \E i \in DOMAIN search_index.entities : search_index.entities[i] = last.arg.entity
        THEN SearchIndex_current_entity(search_index) = last.arg
        ELSE /\ search_index.current_entity_index = 0
             /\ search_index.current_tag_index = 0

\* The call that led to the next state runs reset_cursor(): reset_cursor
\* itself, find() with reset_index, or set_current_entity() with a record
\* that list.index() does not find.
RunsResetCursor ==
    \/ last'.op = "reset_cursor"
    \/ last'.op = "find" /\ last'.arg.reset_index
    \/ last'.op = "set_current_entity"
           /\ ListIndex(search_index.entities, last'.arg.entity) < 0

\* What a step from a state with end-of-index set does.
EndStays ==
    /\ ~RunsResetCursor => search_index'.end_of_index
    /\ last'.op = "set_current_entity"
           /\ last'.arg.entity \in Range(search_index.entities)
           => search_index'.end_of_index
    /\ last'.op = "find" /\ ~last'.arg.reset_index =>
           /\ last'.ret = NOT_FOUND
           /\ search_index'.current_entity_index = search_index.current_entity_index
           /\ search_index'.current_tag_index = search_index.current_tag_index
    /\ ~search_index'.end_of_index => search_index'.entities # <<>>
    /\ last'.op = "reset_cursor" /\ search_index.entities # <<>>
           => ~search_index'.end_of_index

\* C30: end-of-index is sticky: once set it stays set across
\* move_cursor_forward, move_cursor_backward, set_current_entity on a record
\* in the list, update_entities, and find(..., reset_index=False) in either
\* direction, each such find returning (None, -1) without moving the cursor;
\* only reset_cursor or find(..., reset_index=True) on a non-empty list
\* clears it.
C30_EndIsSticky == [][search_index.end_of_index => EndStays]_vars

\* C30 witness: update_entities() was called when current_entity() returned
\* (None, -1) and the cursor was behind the first record; the new list has
\* records and end-of-index, which the call does not write, is still set.
C30_Witness ==
    /\ last.op = "update_entities"
    /\ last.arg = NOT_FOUND
    /\ search_index.entities # <<>>
    /\ search_index.end_of_index
    /\ search_index.current_entity_index > 0

\* The cursor of s addresses a tag of a record of s.entities.
CursorOnTag(s) ==
    /\ 0 <= s.current_entity_index
    /\ s.current_entity_index < Len(s.entities)
    /\ 0 <= s.current_tag_index
    /\ s.current_tag_index < Len(s.entities[s.current_entity_index + 1].tags)

\* C29: on a SearchIndex whose records all have tags, after any calls of
\* reset_cursor, move_cursor_forward, move_cursor_backward, find and
\* update_entities, the cursor addresses an existing tag whenever the record
\* list is not empty, so that a following move reads no index out of range.
C29_CursorOnTag ==
    search_index.entities # <<>> =>
        /\ CursorOnTag(search_index)
        /\ ~SearchIndex_move_cursor_forward_raises(search_index)
        /\ ~SearchIndex_move_cursor_backward_raises(search_index)

\* What n calls of find(term, backward, reset_index=False) on s return, one
\* after the other.
RECURSIVE FindAgain(_, _, _, _)
FindAgain(s, term, backward, n) ==
    IF n = 0 THEN <<>>
    ELSE LET done == SearchIndex_find(s, term, backward, FALSE)
         IN  <<done.ret>> \o FindAgain(done.s, term, backward, n - 1)

\* find(term, backward) with reset_index, then n calls without it.
FindAll(s, term, backward, n) ==
    LET done == SearchIndex_find(s, term, backward, TRUE)
    IN  <<done.ret>> \o FindAgain(done.s, term, backward, n)

\* The positions P of the index s in the order of the search direction, as
\* find() returns them.
RECURSIVE InOrder(_, _, _)
InOrder(s, P, backward) ==
    IF P = {} THEN <<>>
    ELSE LET p == IF backward THEN LastOf(P) ELSE FirstOf(P)
         IN  <<Found(s, p)>> \o InOrder(s, P \ {p}, backward)

\* C21: after find(term) with reset_index, repeated calls of
\* find(term, reset_index=False) in the same direction return every matching
\* position exactly once, in the order of that direction, and (None, -1) on
\* every later call: no position, the last one included, is skipped or tested
\* twice.
C21_RepeatedFind ==
    \A term \in Terms \ {<<>>}, backward \in BOOLEAN :
        LET named == SearchIndex_reset_search_term(search_index, term)
            found == InOrder(named, Matches(named), backward)
            calls == TagCount(named.entities) + 2
            rets == FindAll(search_index, term, backward, calls - 1)
        IN  rets = [k \in 1..calls |-> IF k <= Len(found) THEN found[k] ELSE NOT_FOUND]

====
